---- MODULE Spec2Model ----
(***************************************************************************)
(* concorde/util.py: the TSPLIB writer (write_tsp_file), the tour reader   *)
(* (read_tsp_tour) and the asymmetric-to-symmetric transform               *)
(* (symmetricize).                                                         *)
(*                                                                         *)
(* Text is modelled as sequences of one-character strings, so that         *)
(* formatting, line splitting, startswith, split() and int() are computed  *)
(* and not assumed.  Matrix entries are fixed-point numbers: the integer e *)
(* stands for the number e / Den.                                          *)
(***************************************************************************)
EXTENDS Integers, Sequences, FiniteSets, TLC

VARIABLES
    \* write_tsp_file(fp, xs, ys, norm, name)
    xs, ys, norm, name, fp, w_pc, n, w_exc,
    \* read_tsp_tour(fname)
    file, r_pc, line_no, has_tour, tour, r_exc, r_ret,
    \* symmetricize(matrix, k)
    matrix, k, s_pc, matrix_symm

w_vars == <<xs, ys, norm, name, fp, w_pc, n, w_exc>>
r_vars == <<file, r_pc, line_no, has_tour, tour, r_exc, r_ret>>
s_vars == <<matrix, k, s_pc, matrix_symm>>
vars == <<w_vars, r_vars, s_vars>>

-----------------------------------------------------------------------------
(* Bounds *)

\* largest number of points handed to write_tsp_file
MaxPts == 2
\* largest number of lines of a tour file
MaxLines == 4
\* largest dimension n of the asymmetric matrix
MaxN == 3
\* matrix entries are multiples of 1 / Den
Den == 4

-----------------------------------------------------------------------------
(* symmetricize *)

\* the entries a matrix is drawn from: 1/Den (a fraction) and 5
Vals == {1, 5 * Den}
\* the values of k a caller supplies; <<>> stands for k=None
KVals == {6, 11}

SquareMatrices == UNION {[1..d -> [1..d -> Vals]] : d \in 1..MaxN}

RECURSIVE SetMax(_)
SetMax(S) ==
    LET x == CHOOSE y \in S : TRUE
    IN  IF S = {x} THEN x
        ELSE LET m == SetMax(S \ {x}) IN IF x > m THEN x ELSE m

\* matrix.max(): the largest entry, the diagonal included
MatMax(m) == SetMax({m[i][j] : i \in DOMAIN m, j \in DOMAIN m})

\* a rounding that sends a tie upwards
RoundHalfUp(num, den) == (2 * num + den) \div (2 * den)
\* Python round(num / den): to the nearest integer, a tie to the even one
Round(num, den) ==
    LET q == num \div den
        r == num % den
    IN  IF 2 * r < den THEN q
        ELSE IF 2 * r > den THEN q + 1
        ELSE IF q % 2 = 0 THEN q ELSE q + 1

\* k = round(10*matrix.max())
DefaultK(m) == Round(10 * MatMax(m), Den)

\* np.fill_diagonal(a, 0) on a copy
FillDiagonal(a, v) ==
    [i \in DOMAIN a |-> [j \in DOMAIN a[i] |-> IF i = j THEN v ELSE a[i][j]]]

\* np.ones(matrix.shape).astype(int) * k, as fixed-point entries
OnesTimes(m, kk) == [i \in DOMAIN m |-> [j \in DOMAIN m[i] |-> 1 * kk * Den]]

\* np.transpose
Transpose(a) == [i \in DOMAIN a |-> [j \in DOMAIN a |-> a[j][i]]]

\* np.concatenate((a, b), axis=1) and axis=0
ConcatAxis1(a, b) == [i \in DOMAIN a |-> a[i] \o b[i]]
ConcatAxis0(a, b) == a \o b

\* a construction that forgets the transpose in the top-right block
BuildNoTranspose(m, kk) ==
    LET matrix_bar == FillDiagonal(m, 0)
        u == FillDiagonal(OnesTimes(m, kk), 0)
    IN  ConcatAxis0(ConcatAxis1(u, matrix_bar), ConcatAxis1(matrix_bar, u))
\* the body of symmetricize once k is known
Build(m, kk) ==
    LET matrix_bar == FillDiagonal(m, 0)
        u == FillDiagonal(OnesTimes(m, kk), 0)
        matrix_symm_top == ConcatAxis1(u, Transpose(matrix_bar))
        matrix_symm_bottom == ConcatAxis1(matrix_bar, u)
    IN  ConcatAxis0(matrix_symm_top, matrix_symm_bottom)

\* the k symmetricize works with: the caller's, or the default
KUsed(m, karg) == IF karg = <<>> THEN DefaultK(m) ELSE karg[1]

SymmetricizeOp(m, karg) == Build(m, KUsed(m, karg))

SInit ==
    /\ matrix \in SquareMatrices
    /\ k \in {<<>>} \cup {<<v>> : v \in KVals}
    /\ s_pc = "call"
    /\ matrix_symm = <<>>

Symmetricize ==
    /\ s_pc = "call"
    /\ matrix_symm' = SymmetricizeOp(matrix, k)
    /\ s_pc' = "done"
    /\ UNCHANGED <<matrix, k>>
    /\ UNCHANGED <<w_vars, r_vars>>

-----------------------------------------------------------------------------
(* Text: a string is the sequence of its characters *)

Whitespace == {" ", "\n", "\t"}
DigitChars == <<"0", "1", "2", "3", "4", "5", "6", "7", "8", "9">>
Digits == {DigitChars[i] : i \in 1..10}
DigitVal(c) == (CHOOSE i \in 1..10 : DigitChars[i] = c) - 1

\* str.startswith
StartsWith(s, prefix) ==
    /\ Len(s) >= Len(prefix)
    /\ SubSeq(s, 1, Len(prefix)) = prefix

\* str.split(): the maximal runs of non-whitespace characters, in order
RECURSIVE SplitFrom(_, _, _)
SplitFrom(s, i, cur) ==
    LET flush == IF cur = <<>> THEN <<>> ELSE <<cur>>
    IN  IF i > Len(s) THEN flush
        ELSE IF s[i] \in Whitespace THEN flush \o SplitFrom(s, i + 1, <<>>)
        ELSE SplitFrom(s, i + 1, Append(cur, s[i]))
Split(s) == SplitFrom(s, 1, <<>>)

\* int(token): an optional sign and then one or more decimal digits;
\* anything else raises ValueError
Unsigned(tok) == IF tok # <<>> /\ tok[1] \in {"+", "-"} THEN Tail(tok) ELSE tok
IsInt(tok) ==
    /\ Unsigned(tok) # <<>>
    /\ \A i \in 1..Len(Unsigned(tok)) : Unsigned(tok)[i] \in Digits
RECURSIVE DigitsValue(_)
DigitsValue(d) ==
    IF d = <<>> THEN 0
    ELSE 10 * DigitsValue(SubSeq(d, 1, Len(d) - 1)) + DigitVal(d[Len(d)])
IntOf(tok) ==
    IF tok[1] = "-" THEN 0 - DigitsValue(Unsigned(tok))
    ELSE DigitsValue(Unsigned(tok))

-----------------------------------------------------------------------------
(* read_tsp_tour *)

TOUR_SECTION == <<"T", "O", "U", "R", "_", "S", "E", "C", "T", "I", "O", "N">>
EOF == <<"E", "O", "F">>

\* the lines a tour file is made of: the section header, a header line that
\* carries a token, the end marker, an indented end marker, two nodes, the
\* sentinel, an empty line and a line of the file's preamble
FileLines ==
    { TOUR_SECTION,
      TOUR_SECTION \o <<" ", "2">>,
      EOF,
      <<" ">> \o EOF,
      <<"1", " ", "1", "2">>,
      <<"-", "1">>,
      <<>>,
      <<"D", "I", "M", ":", " ", "3">> }

Files == UNION {[1..l -> FileLines] : l \in 0..MaxLines}

\* the line the iteration `for line in fp` yields: with its line terminator
CurrentLine == file[line_no] \o <<"\n">>

\* the tokens of a line up to its first token that int() rejects
RECURSIVE IntPrefix(_)
IntPrefix(toks) ==
    IF toks = <<>> \/ ~IsInt(toks[1]) THEN <<>>
    ELSE <<IntOf(toks[1])>> \o IntPrefix(Tail(toks))
AllInts(toks) == \A i \in 1..Len(toks) : IsInt(toks[i])

\* an emptiness test that discounts the sentinel
NotTourAfterPop(t) == t = <<>> \/ t = <<-1>>
\* `if not tour`
NotTour(t) == t = <<>>

\* a return that keeps the sentinel
PopNever(t) == t
\* `if tour[-1] == -1: tour.pop()`
PopSentinel(t) == IF t[Len(t)] = -1 THEN SubSeq(t, 1, Len(t) - 1) ELSE t

RInit ==
    /\ file \in Files
    /\ r_pc = "scan"
    /\ line_no = 1
    /\ has_tour = FALSE
    /\ tour = <<>>
    /\ r_exc = "none"
    /\ r_ret = <<>>

\* `if line.startswith("TOUR_SECTION"): has_tour = True`
ScanTourSection ==
    /\ r_pc = "scan" /\ line_no <= Len(file)
    /\ StartsWith(CurrentLine, TOUR_SECTION)
    /\ has_tour' = TRUE
    /\ line_no' = line_no + 1
    /\ UNCHANGED <<file, r_pc, tour, r_exc, r_ret>>
    /\ UNCHANGED <<w_vars, s_vars>>

\* `elif line.startswith("EOF"): break`
ScanEOF ==
    /\ r_pc = "scan" /\ line_no <= Len(file)
    /\ ~StartsWith(CurrentLine, TOUR_SECTION)
    /\ StartsWith(CurrentLine, EOF)
    /\ r_pc' = "post"
    /\ UNCHANGED <<file, line_no, has_tour, tour, r_exc, r_ret>>
    /\ UNCHANGED <<w_vars, s_vars>>

\* `else: if has_tour: tour.extend(int(node) for node in line.split())`
ScanOther ==
    /\ r_pc = "scan" /\ line_no <= Len(file)
    /\ ~StartsWith(CurrentLine, TOUR_SECTION)
    /\ ~StartsWith(CurrentLine, EOF)
    /\ IF has_tour
       THEN /\ tour' = tour \o IntPrefix(Split(CurrentLine))
            /\ IF AllInts(Split(CurrentLine))
               THEN /\ line_no' = line_no + 1
                    /\ UNCHANGED <<r_pc, r_exc>>
               ELSE /\ r_pc' = "raised"
                    /\ r_exc' = "ValueError"
                    /\ UNCHANGED line_no
       ELSE /\ line_no' = line_no + 1
            /\ UNCHANGED <<tour, r_pc, r_exc>>
    /\ UNCHANGED <<file, has_tour, r_ret>>
    /\ UNCHANGED <<w_vars, s_vars>>

\* the file is exhausted: the loop ends
ScanEnd ==
    /\ r_pc = "scan" /\ line_no > Len(file)
    /\ r_pc' = "post"
    /\ UNCHANGED <<file, line_no, has_tour, tour, r_exc, r_ret>>
    /\ UNCHANGED <<w_vars, s_vars>>

\* `if not tour: raise RuntimeError(...)`
RaiseNoTour ==
    /\ r_pc = "post" /\ NotTour(tour)
    /\ r_pc' = "raised"
    /\ r_exc' = "RuntimeError"
    /\ UNCHANGED <<file, line_no, has_tour, tour, r_ret>>
    /\ UNCHANGED <<w_vars, s_vars>>

\* `if tour[-1] == -1: tour.pop()` and `return np.array(tour)`
ReturnTour ==
    /\ r_pc = "post" /\ ~NotTour(tour)
    /\ tour' = PopSentinel(tour)
    /\ r_ret' = PopSentinel(tour)
    /\ r_pc' = "returned"
    /\ UNCHANGED <<file, line_no, has_tour, r_exc>>
    /\ UNCHANGED <<w_vars, s_vars>>

-----------------------------------------------------------------------------
(* write_tsp_file *)

EDGE_WEIGHT_TYPES ==
    { <<"E", "X", "P", "L", "I", "C", "I", "T">>,
      <<"E", "U", "C", "_", "2", "D">>,
      <<"E", "U", "C", "_", "3", "D">>,
      <<"M", "A", "X", "_", "2", "D">>,
      <<"M", "A", "N", "_", "2", "D">>,
      <<"G", "E", "O">>,
      <<"G", "E", "O", "M">>,
      <<"A", "T", "T">>,
      <<"C", "E", "I", "L", "_", "2", "D">>,
      <<"D", "S", "J", "R", "A", "N", "D">> }

\* the norms a caller passes: the recognized ones and two that are not
Norms == EDGE_WEIGHT_TYPES \cup {<<"e", "u", "c", "_", "2", "d">>, <<"G", "E", "O", "X">>}
\* the instance names a caller passes; the second holds a line break
Names == {<<"a", "5">>, <<"a", "\n", "5">>}
\* the coordinates a caller passes
CoordVals == {-3, 0, 12}
Coords == UNION {[1..l -> CoordVals] : l \in 0..MaxPts}

\* "{}".format(v) of an integer: a minus sign when negative, then the
\* decimal digits
RECURSIVE NatStr(_)
NatStr(v) ==
    IF v < 10 THEN <<DigitChars[v + 1]>>
    ELSE NatStr(v \div 10) \o <<DigitChars[(v % 10) + 1]>>
Str(v) == IF v < 0 THEN <<"-">> \o NatStr(0 - v) ELSE NatStr(v)

\* `len(xs) != len(ys)`
LengthsDiffer(a, b) == Len(a) # Len(b)
\* a norm check that lets every norm through
NormUnknownNever(nm) == FALSE
\* `norm not in EDGE_WEIGHT_TYPES`
NormUnknown(nm) == nm \notin EDGE_WEIGHT_TYPES

\* the arguments of the fp.write calls
NameLine(nm) == <<"N", "A", "M", "E", ":", " ">> \o nm \o <<"\n">>
TypeLine == <<"T", "Y", "P", "E", ":", " ", "T", "S", "P", "\n">>
\* a DIMENSION line that is one short
DimensionLineLessOne(a) == <<"D", "I", "M", "E", "N", "S", "I", "O", "N", ":", " ">> \o Str(Len(a) - 1) \o <<"\n">>
DimensionLine(a) == <<"D", "I", "M", "E", "N", "S", "I", "O", "N", ":", " ">> \o Str(Len(a)) \o <<"\n">>
EdgeWeightTypeLine(nm) == <<"E", "D", "G", "E", "_", "W", "E", "I", "G", "H", "T", "_", "T", "Y", "P", "E", ":", " ">> \o nm \o <<"\n">>
NodeCoordSectionLine == <<"N", "O", "D", "E", "_", "C", "O", "O", "R", "D", "_", "S", "E", "C", "T", "I", "O", "N", "\n">>
\* a point line with a 0-based index
PointLineZeroBased(i, x, y) == Str(i - 1) \o <<" ">> \o Str(x) \o <<" ">> \o Str(y) \o <<"\n">>
PointLine(i, x, y) == Str(i) \o <<" ">> \o Str(x) \o <<" ">> \o Str(y) \o <<"\n">>
EOFLine == <<"E", "O", "F", "\n">>

\* the number of pairs zip(xs, ys) yields
ZipLen(a, b) == IF Len(a) < Len(b) THEN Len(a) ELSE Len(b)

WInit ==
    /\ xs \in Coords
    /\ ys \in Coords
    /\ norm \in Norms
    /\ name \in Names
    /\ fp = <<>>
    /\ w_pc = "call"
    /\ n = 0
    /\ w_exc = "none"

\* `if len(xs) != len(ys): raise ValueError(...)`
RaiseLengths ==
    /\ w_pc = "call" /\ LengthsDiffer(xs, ys)
    /\ w_pc' = "raised"
    /\ w_exc' = "ValueError"
    /\ UNCHANGED <<xs, ys, norm, name, fp, n>>
    /\ UNCHANGED <<r_vars, s_vars>>

\* `if norm not in EDGE_WEIGHT_TYPES: raise ValueError(...)`
RaiseNorm ==
    /\ w_pc = "call" /\ ~LengthsDiffer(xs, ys) /\ NormUnknown(norm)
    /\ w_pc' = "raised"
    /\ w_exc' = "ValueError"
    /\ UNCHANGED <<xs, ys, norm, name, fp, n>>
    /\ UNCHANGED <<r_vars, s_vars>>

\* `fp.write("NAME: {}\n".format(name))`
WriteName ==
    /\ w_pc = "call" /\ ~LengthsDiffer(xs, ys) /\ ~NormUnknown(norm)
    /\ fp' = fp \o NameLine(name)
    /\ w_pc' = "type"
    /\ UNCHANGED <<xs, ys, norm, name, n, w_exc>>
    /\ UNCHANGED <<r_vars, s_vars>>

\* `fp.write("TYPE: TSP\n")`
WriteType ==
    /\ w_pc = "type"
    /\ fp' = fp \o TypeLine
    /\ w_pc' = "dimension"
    /\ UNCHANGED <<xs, ys, norm, name, n, w_exc>>
    /\ UNCHANGED <<r_vars, s_vars>>

\* `fp.write("DIMENSION: {}\n".format(len(xs)))`
WriteDimension ==
    /\ w_pc = "dimension"
    /\ fp' = fp \o DimensionLine(xs)
    /\ w_pc' = "edge_weight_type"
    /\ UNCHANGED <<xs, ys, norm, name, n, w_exc>>
    /\ UNCHANGED <<r_vars, s_vars>>

\* `fp.write("EDGE_WEIGHT_TYPE: {}\n".format(norm))`
WriteEdgeWeightType ==
    /\ w_pc = "edge_weight_type"
    /\ fp' = fp \o EdgeWeightTypeLine(norm)
    /\ w_pc' = "node_coord_section"
    /\ UNCHANGED <<xs, ys, norm, name, n, w_exc>>
    /\ UNCHANGED <<r_vars, s_vars>>

\* `fp.write("NODE_COORD_SECTION\n")`; the loop then starts with n = 1
WriteNodeCoordSection ==
    /\ w_pc = "node_coord_section"
    /\ fp' = fp \o NodeCoordSectionLine
    /\ w_pc' = "loop"
    /\ n' = 1
    /\ UNCHANGED <<xs, ys, norm, name, w_exc>>
    /\ UNCHANGED <<r_vars, s_vars>>

\* `for n, (x, y) in enumerate(zip(xs, ys), start=1): fp.write(...)`
WritePoint ==
    /\ w_pc = "loop" /\ n <= ZipLen(xs, ys)
    /\ fp' = fp \o PointLine(n, xs[n], ys[n])
    /\ n' = n + 1
    /\ UNCHANGED <<xs, ys, norm, name, w_pc, w_exc>>
    /\ UNCHANGED <<r_vars, s_vars>>

\* `fp.write("EOF\n")`, after the loop
WriteEOF ==
    /\ w_pc = "loop" /\ n > ZipLen(xs, ys)
    /\ fp' = fp \o EOFLine
    /\ w_pc' = "done"
    /\ UNCHANGED <<xs, ys, norm, name, n, w_exc>>
    /\ UNCHANGED <<r_vars, s_vars>>

-----------------------------------------------------------------------------
(* idle values of the functions a specification does not run *)

WIdle ==
    /\ xs = <<>> /\ ys = <<>> /\ norm = <<>> /\ name = <<>> /\ fp = <<>>
    /\ w_pc = "idle" /\ n = 0 /\ w_exc = "none"
RIdle ==
    /\ file = <<>> /\ r_pc = "idle" /\ line_no = 0 /\ has_tour = FALSE
    /\ tour = <<>> /\ r_exc = "none" /\ r_ret = <<>>
SIdle ==
    /\ matrix = <<>> /\ k = <<>> /\ s_pc = "idle" /\ matrix_symm = <<>>

SymInit == SInit /\ WIdle /\ RIdle
SymNext == Symmetricize
SpecSym == SymInit /\ [][SymNext]_vars

WriteInit == WInit /\ RIdle /\ SIdle
WriteNext ==
    \/ RaiseLengths
    \/ RaiseNorm
    \/ WriteName
    \/ WriteType
    \/ WriteDimension
    \/ WriteEdgeWeightType
    \/ WriteNodeCoordSection
    \/ WritePoint
    \/ WriteEOF
SpecWrite == WriteInit /\ [][WriteNext]_vars

ReadInit == RInit /\ WIdle /\ SIdle
ReadNext ==
    \/ ScanTourSection
    \/ ScanEOF
    \/ ScanOther
    \/ ScanEnd
    \/ RaiseNoTour
    \/ ReturnTour
SpecRead == ReadInit /\ [][ReadNext]_vars

-----------------------------------------------------------------------------
(* Claims about symmetricize *)

Dim == Len(matrix)
\* a caller-supplied k larger than 2 * max(C)
LargeK == k # <<>> /\ k[1] * Den > 2 * MatMax(matrix)
\* entry (i, j) of C-bar and of U, for i, j in 1..n
CBar(i, j) == IF i = j THEN 0 ELSE matrix[i][j]
U(i, j, kk) == IF i = j THEN 0 ELSE kk * Den

\* C1: for a square C and a supplied k > 2 * max(C) the result S is 2n x 2n,
\* symmetric, zero on its diagonal, and its quadrants are U, C-bar transposed,
\* C-bar and U.
C1_Quadrants ==
    (s_pc = "done" /\ LargeK) =>
        /\ Len(matrix_symm) = 2 * Dim
        /\ \A i \in 1..(2 * Dim) : Len(matrix_symm[i]) = 2 * Dim
        /\ \A i, j \in 1..(2 * Dim) : matrix_symm[i][j] = matrix_symm[j][i]
        /\ \A i \in 1..(2 * Dim) : matrix_symm[i][i] = 0
        /\ \A i, j \in 1..Dim :
              /\ matrix_symm[i][j] = U(i, j, k[1])
              /\ matrix_symm[i][Dim + j] = CBar(j, i)
              /\ matrix_symm[Dim + i][j] = CBar(i, j)
              /\ matrix_symm[Dim + i][Dim + j] = U(i, j, k[1])

\* an asymmetric 3 x 3 matrix went through symmetricize with a large k
C1_Witness ==
    /\ s_pc = "done" /\ LargeK /\ Dim = 3
    /\ matrix[1][2] # matrix[2][1]
    /\ matrix[1][1] # 0
    /\ matrix_symm[4][2] = matrix[1][2]

\* the integer nearest to num / Den, a tie going to the even integer
IsRounded(kk, num) ==
    LET d == IF kk * Den >= num THEN kk * Den - num ELSE num - kk * Den
    IN  /\ 2 * d <= Den
        /\ (2 * d = Den => kk % 2 = 0)

\* C9: called without k, symmetricize uses k = round(10 * max(C)), and every
\* off-diagonal entry of both U blocks holds that one value (a maximum of 5
\* gives 50).
C9_DefaultK ==
    (s_pc = "done" /\ k = <<>>) =>
        \E kk \in 0..(10 * MatMax(matrix)) :
            /\ IsRounded(kk, 10 * MatMax(matrix))
            /\ (MatMax(matrix) = 5 * Den => kk = 50)
            /\ \A i, j \in 1..Dim : i # j =>
                  /\ matrix_symm[i][j] = kk * Den
                  /\ matrix_symm[Dim + i][Dim + j] = kk * Den

\* the default k was computed from a fractional maximum: 10 * max is a tie
C9_Witness ==
    /\ s_pc = "done" /\ k = <<>> /\ Dim >= 2
    /\ (20 * MatMax(matrix)) % (2 * Den) = Den
    /\ matrix_symm[1][2] = DefaultK(matrix) * Den

\* m with its diagonal replaced by d
WithDiagonal(m, d) ==
    [i \in DOMAIN m |-> [j \in DOMAIN m |-> IF i = j THEN d[i] ELSE m[i][j]]]

\* C10: self-loop costs do not leak: matrices that agree off the diagonal
\* give the same result, for a supplied k and for the default k.
C10_NoDiagonalLeak ==
    s_pc = "done" =>
        \A d \in [1..Dim -> Vals] :
            SymmetricizeOp(WithDiagonal(matrix, d), k) = matrix_symm

\* the orders in which a cycle through the nodes 1..m, started at node 1,
\* can visit them
RECURSIVE Orders(_)
Orders(S) ==
    IF S = {} THEN {<<>>}
    ELSE UNION {{<<x>> \o p : p \in Orders(S \ {x})} : x \in S}
Cycles(m) == {<<1>> \o p : p \in Orders(2..m)}

Succ(p, i) == p[(i % Len(p)) + 1]
RECURSIVE PathCost(_, _, _)
PathCost(w, p, i) ==
    IF i = 0 THEN 0 ELSE w[p[i]][Succ(p, i)] + PathCost(w, p, i - 1)
\* the cost of the closed walk p under the weights w; on a single node the
\* tour is empty
CycleCost(w, p) == IF Len(p) = 1 THEN 0 ELSE PathCost(w, p, Len(p))

MinCost(w, m) == CHOOSE c \in {CycleCost(w, p) : p \in Cycles(m)} :
                    \A q \in Cycles(m) : c <= CycleCost(w, q)

\* in the cycle p node i sits next to its copy Dim + i
PairAdjacent(p, i) ==
    \E a \in 1..Len(p) :
        \/ p[a] = i /\ Succ(p, a) = Dim + i
        \/ p[a] = Dim + i /\ Succ(p, a) = i

\* C2: for non-negative C and k above every entry of C (the default k
\* included), every minimum-cost Hamiltonian cycle of S keeps each node next
\* to its copy and costs what an optimal directed tour of C costs.
C2_OptimalToursCorrespond ==
    (s_pc = "done" /\ KUsed(matrix, k) * Den > MatMax(matrix)) =>
        \A p \in Cycles(2 * Dim) :
            CycleCost(matrix_symm, p) = MinCost(matrix_symm, 2 * Dim) =>
                /\ \A i \in 1..Dim : PairAdjacent(p, i)
                /\ CycleCost(matrix_symm, p) =
                       MinCost(FillDiagonal(matrix, 0), Dim)

-----------------------------------------------------------------------------
(* Claims about read_tsp_tour *)

\* the first line beginning with prefix; Len(file) + 1 when there is none
FirstLine(prefix) ==
    IF \E i \in 1..Len(file) : StartsWith(file[i], prefix)
    THEN CHOOSE i \in 1..Len(file) :
            /\ StartsWith(file[i], prefix)
            /\ \A j \in 1..(i - 1) : ~StartsWith(file[j], prefix)
    ELSE Len(file) + 1

RECURSIVE TokensOfLines(_, _, _)
\* the tokens, in file order, of the lines from..to; with headers = FALSE
\* the lines that begin with TOUR_SECTION are left out
TokensOfLines(from, to, headers) ==
    IF from > to THEN <<>>
    ELSE (IF headers \/ ~StartsWith(file[from], TOUR_SECTION)
          THEN Split(file[from]) ELSE <<>>)
         \o TokensOfLines(from + 1, to, headers)

\* the tokens on the lines after the first TOUR_SECTION line and before the
\* first EOF line
TokensBetween == TokensOfLines(FirstLine(TOUR_SECTION) + 1, FirstLine(EOF) - 1, TRUE)
\* the same, leaving out the lines that begin with TOUR_SECTION themselves
DataTokensBetween ==
    TokensOfLines(FirstLine(TOUR_SECTION) + 1, FirstLine(EOF) - 1, FALSE)

RECURSIVE IntegersAmong(_)
\* the integers among the tokens, in order
IntegersAmong(toks) ==
    IF toks = <<>> THEN <<>>
    ELSE (IF IsInt(toks[1]) THEN <<IntOf(toks[1])>> ELSE <<>>)
         \o IntegersAmong(Tail(toks))

\* one final element removed if and only if the last value is -1
WithoutSentinel(t) ==
    IF t # <<>> /\ t[Len(t)] = -1 THEN SubSeq(t, 1, Len(t) - 1) ELSE t

\* C3 as stated: a successful read returns the integers of all tokens on the
\* lines after the first TOUR_SECTION line and before the first EOF line,
\* less a final -1.
C3_AllTokensBetween ==
    r_pc = "returned" => r_ret = WithoutSentinel(IntegersAmong(TokensBetween))

\* C3 amended: a successful read returns the integers of all tokens on the
\* lines after the first TOUR_SECTION line and before the first EOF line that
\* do not themselves begin with TOUR_SECTION, less a final -1; every such
\* token is an integer.
C3_DataTokensBetween ==
    r_pc = "returned" =>
        /\ AllInts(DataTokensBetween)
        /\ r_ret = WithoutSentinel(IntegersAmong(DataTokensBetween))

\* a read succeeded on a file that has an EOF line and ends its tour with
\* the sentinel
C3_Witness ==
    /\ r_pc = "returned"
    /\ FirstLine(EOF) <= Len(file)
    /\ Len(r_ret) >= 2
    /\ Len(IntegersAmong(DataTokensBetween)) = Len(r_ret) + 1

\* C4 as stated: NoTourFound is raised exactly when there is no TOUR_SECTION
\* line, or an EOF line comes first, or no token lies between the
\* TOUR_SECTION line and the EOF line or end of file; otherwise a tour is
\* returned.
C4_NoTourIffNoTokens ==
    LET empty == \/ FirstLine(TOUR_SECTION) > Len(file)
                 \/ FirstLine(EOF) < FirstLine(TOUR_SECTION)
                 \/ TokensBetween = <<>>
    IN  r_pc \in {"returned", "raised"} =>
            /\ (r_exc = "RuntimeError") <=> empty
            /\ ~empty => r_pc = "returned"

\* C4 amended: when a token on a data line (a line not beginning with
\* TOUR_SECTION) between the TOUR_SECTION line and the EOF line or end of
\* file is not an integer, the read fails with ValueError; otherwise
\* NoTourFound is raised exactly when there is no TOUR_SECTION line, or an EOF
\* line comes first, or no token lies on a data line in between, and in every
\* other case a tour is returned.
C4_NoTourIffNoDataTokens ==
    LET empty == \/ FirstLine(TOUR_SECTION) > Len(file)
                 \/ FirstLine(EOF) < FirstLine(TOUR_SECTION)
                 \/ DataTokensBetween = <<>>
    IN  r_pc \in {"returned", "raised"} =>
            IF AllInts(DataTokensBetween)
            THEN /\ (r_exc = "RuntimeError") <=> empty
                 /\ ~empty => r_pc = "returned" /\ r_exc = "none"
            ELSE r_exc = "ValueError"

\* NoTourFound was raised on a file whose EOF line precedes its TOUR_SECTION
\* line and its data
C4_Witness ==
    /\ r_pc = "raised" /\ r_exc = "RuntimeError"
    /\ FirstLine(EOF) < FirstLine(TOUR_SECTION)
    /\ FirstLine(TOUR_SECTION) < Len(file)
    /\ AllInts(Split(file[Len(file)])) /\ Split(file[Len(file)]) # <<>>

\* C5: a returned tour has at least one element and does not end with -1.
C5_ReturnedTourNonEmpty ==
    r_pc = "returned" => Len(r_ret) >= 1 /\ r_ret[Len(r_ret)] # -1

-----------------------------------------------------------------------------
(* Claims about write_tsp_file *)

InvalidInput == Len(xs) # Len(ys) \/ norm \notin EDGE_WEIGHT_TYPES

RECURSIVE ExpectedPoints(_)
\* the lines '<i> <xs[i]> <ys[i]>' for i = 1..m, in increasing order of i
ExpectedPoints(m) ==
    IF m = 0 THEN <<>>
    ELSE ExpectedPoints(m - 1)
         \o Str(m) \o <<" ">> \o Str(xs[m]) \o <<" ">> \o Str(ys[m]) \o <<"\n">>

\* the complete file of a valid call
ExpectedFile ==
    <<"N", "A", "M", "E", ":", " ">> \o name \o <<"\n">>
    \o <<"T", "Y", "P", "E", ":", " ", "T", "S", "P", "\n">>
    \o <<"D", "I", "M", "E", "N", "S", "I", "O", "N", ":", " ">> \o Str(Len(xs)) \o <<"\n">>
    \o <<"E", "D", "G", "E", "_", "W", "E", "I", "G", "H", "T", "_", "T", "Y", "P", "E", ":", " ">> \o norm \o <<"\n">>
    \o <<"N", "O", "D", "E", "_", "C", "O", "O", "R", "D", "_", "S", "E", "C", "T", "I", "O", "N", "\n">>
    \o ExpectedPoints(Len(xs))
    \o <<"E", "O", "F", "\n">>

IsPrefix(a, b) == Len(a) <= Len(b) /\ SubSeq(b, 1, Len(a)) = a

\* C6: on invalid input (lengths that differ, or an unrecognized norm) the
\* call fails with ValueError and nothing was written to the sink; on valid
\* input no error is raised and the finished call has written the complete
\* file.
C6_AllOrNothing ==
    /\ InvalidInput =>
          /\ fp = <<>>
          /\ w_pc \in {"call", "raised"}
          /\ w_pc = "raised" => w_exc = "ValueError"
    /\ ~InvalidInput =>
          /\ w_exc = "none" /\ w_pc # "raised"
          /\ w_pc = "done" => fp = ExpectedFile

\* the call failed on an unrecognized norm, with points to write
C6_Witness ==
    /\ w_pc = "raised" /\ w_exc = "ValueError"
    /\ norm \notin EDGE_WEIGHT_TYPES
    /\ Len(xs) = Len(ys) /\ Len(xs) >= 1
    /\ fp = <<>>

\* C7: on valid input what has been written is, at every moment, the start of
\* NAME, TYPE, DIMENSION, EDGE_WEIGHT_TYPE, NODE_COORD_SECTION, the point
\* lines with 1-based indices in increasing order, EOF; and at the end it is
\* all of it and nothing else.
C7_WritesInOrder ==
    ~InvalidInput =>
        /\ IsPrefix(fp, ExpectedFile)
        /\ w_pc = "loop" => Len(fp) = Len(ExpectedFile) - Len(EOFLine)
                                      - (Len(ExpectedPoints(Len(xs)))
                                         - Len(ExpectedPoints(n - 1)))
        /\ w_pc = "done" => fp = ExpectedFile

\* a call with two distinct points has written its file
C7_Witness ==
    /\ w_pc = "done" /\ Len(xs) = 2
    /\ xs[1] # xs[2] /\ xs[1] # ys[1]
    /\ fp # <<>>

\* the number of lines of a text whose lines all end in a line break
LineCount(t) == Cardinality({i \in 1..Len(t) : t[i] = "\n"})

RECURSIVE LinesFrom(_, _, _)
LinesFrom(t, i, cur) ==
    IF i > Len(t) THEN (IF cur = <<>> THEN <<>> ELSE <<cur>>)
    ELSE IF t[i] = "\n" THEN <<cur>> \o LinesFrom(t, i + 1, <<>>)
    ELSE LinesFrom(t, i + 1, Append(cur, t[i]))
Lines(t) == LinesFrom(t, 1, <<>>)

DimensionKey == <<"D", "I", "M", "E", "N", "S", "I", "O", "N", ":", " ">>
\* the value of the DIMENSION field of a written file
DimensionField(t) ==
    LET l == Lines(t)
        i == CHOOSE j \in 1..Len(l) :
                /\ StartsWith(l[j], DimensionKey)
                /\ \A h \in 1..(j - 1) : ~StartsWith(l[h], DimensionKey)
    IN  IntOf(SubSeq(l[i], Len(DimensionKey) + 1, Len(l[i])))

\* C8 as stated: for equal-length coordinates and a valid norm the output has
\* DIMENSION + 5 lines and its DIMENSION field is the number of points.
C8_LineCount ==
    w_pc = "done" =>
        /\ DimensionField(fp) = Len(xs)
        /\ LineCount(fp) = DimensionField(fp) + 5

NoLineBreak(nm) == \A i \in 1..Len(nm) : nm[i] # "\n"

\* C8 amended: for equal-length coordinates, a valid norm and a name that
\* holds no line break, the output has DIMENSION + 6 lines (five header
\* lines, one line per point and the EOF line) and its DIMENSION field is the
\* number of points.
C8_LineCountPlusSix ==
    (w_pc = "done" /\ NoLineBreak(name)) =>
        /\ DimensionField(fp) = Len(xs)
        /\ LineCount(fp) = DimensionField(fp) + 6
        /\ Len(Lines(fp)) = LineCount(fp)

\* a call with a plain name and two points has written its file
C8_Witness ==
    /\ w_pc = "done" /\ NoLineBreak(name)
    /\ Len(xs) = 2
    /\ LineCount(fp) = 8

====
